---- MODULE Spec2Model ----
(***************************************************************************)
(* rdesktop TCP layer (src/tcp.c): the public-key trust store, the send /  *)
(* receive loops over the plaintext socket or the TLS record layer, and    *)
(* the connection manager.                                                 *)
(*                                                                         *)
(* Text is modelled as sequences of ASCII codes, so that the formatting of *)
(* a trust record (cert_tdb_store) and its parsing (cert_tdb_verify) are   *)
(* two different computations.                                             *)
(***************************************************************************)
EXTENDS Integers, Sequences, FiniteSets, TLC

VARIABLES
    tdb,        \* the certificate cache directory: file name -> content or NoFile
    rec,        \* history: file name -> the record cert_tdb_store wrote last, or NoRec
    cert,       \* the inputs and the outcome of the last check_cert call
    with_scard,         \* the build: WITH_SCARD defined
    g_network_error,
    g_ssl_initialized,
    g_run_ui,
    g_exit_mainloop,
    g_in,               \* the inbound stream
    g_out,              \* the outbound streams, 0..STREAM_COUNT-1
    cur_stream_id,      \* static int cur_stream_id of tcp_init
    ext,                \* a stream the caller owns and hands to tcp_recv
    lock,               \* SCARD_LOCK_TCP: "free" or the thread that holds it
    pc,                 \* where each thread is
    fr,                 \* the locals of the call each thread is in
    wire,               \* the bytes the transport holds (a loopback peer)
    ipv6,               \* the build: IPv6 defined
    g_server_address,   \* the cached address, or NULLP
    g_last_server_name, \* the cached host name, or NULLP
    g_sock,
    conn,               \* history: the last tcp_connect call, and what the calls
                        \* before it left
    tls,                \* history: the last call of tcp_tls_connect or
                        \* tcp_disconnect, the library calls it made, how it ended
    last                \* the last return of tcp_init, tcp_send or tcp_recv

trustVars == <<tdb, rec, cert>>

ioVars == <<with_scard, g_network_error, g_ssl_initialized, g_run_ui,
            g_exit_mainloop, g_in, g_out, cur_stream_id, ext, lock, pc, fr,
            wire, last>>

connVars == <<ipv6, g_server_address, g_last_server_name, g_sock, conn, tls>>

vars == <<tdb, rec, cert, with_scard, g_network_error, g_ssl_initialized,
          g_run_ui, g_exit_mainloop, g_in, g_out, cur_stream_id, ext, lock, pc,
          fr, wire, last, ipv6, g_server_address, g_last_server_name, g_sock,
          conn, tls>>

(***************************************************************************)
(* ASCII                                                                   *)
(***************************************************************************)
NL == 10
CH_EQ == 61

Min(a, b) == IF a < b THEN a ELSE b
Max(a, b) == IF a > b THEN a ELSE b

RECURSIVE Pow2(_)
Pow2(n) == IF n = 0 THEN 1 ELSE 2 * Pow2(n - 1)

(***************************************************************************)
(* nettle base64, as tcp.c uses it                                         *)
(***************************************************************************)
\* base64_encode_table
EncChar(v) ==
    IF v < 26 THEN 65 + v
    ELSE IF v < 52 THEN 97 + (v - 26)
    ELSE IF v < 62 THEN 48 + (v - 52)
    ELSE IF v = 62 THEN 43 ELSE 47

\* base64_encode_raw(dst, length, src): BASE64_ENCODE_RAW_LENGTH(length)
\* characters and NO terminating NUL.
RECURSIVE base64_encode_raw(_)
base64_encode_raw(src) ==
    IF Len(src) = 0 THEN <<>>
    ELSE IF Len(src) = 1 THEN
        <<EncChar(src[1] \div 4), EncChar((src[1] % 4) * 16), CH_EQ, CH_EQ>>
    ELSE IF Len(src) = 2 THEN
        <<EncChar(src[1] \div 4),
          EncChar((src[1] % 4) * 16 + (src[2] \div 16)),
          EncChar((src[2] % 16) * 4), CH_EQ>>
    ELSE
        <<EncChar(src[1] \div 4),
          EncChar((src[1] % 4) * 16 + (src[2] \div 16)),
          EncChar((src[2] % 16) * 4 + (src[3] \div 64)),
          EncChar(src[3] % 64)>>
        \o base64_encode_raw(SubSeq(src, 4, Len(src)))

\* base64 decode table: 0..63 a digit, -1 invalid, -2 white space, -3 '='
DecTable(c) ==
    IF c >= 65 /\ c <= 90 THEN c - 65
    ELSE IF c >= 97 /\ c <= 122 THEN c - 97 + 26
    ELSE IF c >= 48 /\ c <= 57 THEN c - 48 + 52
    ELSE IF c = 43 THEN 62
    ELSE IF c = 47 THEN 63
    ELSE IF c = CH_EQ THEN -3
    ELSE IF c \in {9, 10, 11, 12, 13, 32} THEN -2
    ELSE -1

\* base64_decode_init
DecodeInit == [word |-> 0, bits |-> 0, padding |-> 0, out |-> <<>>, ok |-> TRUE]

\* base64_decode_single: one character into the context. Only the low `bits`
\* bits of ctx->word are ever read again, so only those are kept.
DecodeSingle(ctx, c) ==
    LET d == DecTable(c) IN
    IF ~ctx.ok THEN ctx
    ELSE IF d >= 0 THEN
        IF ctx.padding > 0 THEN [ctx EXCEPT !.ok = FALSE]
        ELSE LET w == ctx.word * 64 + d
                 b == ctx.bits + 6
             IN IF b >= 8
                THEN [ctx EXCEPT !.bits = b - 8,
                                 !.word = w % Pow2(b - 8),
                                 !.out = Append(@, (w \div Pow2(b - 8)) % 256)]
                ELSE [ctx EXCEPT !.bits = b, !.word = w]
    ELSE IF d = -1 THEN [ctx EXCEPT !.ok = FALSE]
    ELSE IF d = -2 THEN ctx
    ELSE IF ctx.bits = 0 \/ ctx.padding > 2 THEN [ctx EXCEPT !.ok = FALSE]
    ELSE IF ctx.word % Pow2(ctx.bits) # 0 THEN [ctx EXCEPT !.ok = FALSE]
    ELSE [ctx EXCEPT !.padding = @ + 1, !.bits = @ - 2]

\* base64_decode_update(&ctx, &dst_size, dst, strlen(buf), buf): the context after
\* the whole line; .ok is its return value, .out the dst_size bytes of dst.
RECURSIVE base64_decode_update(_, _)
base64_decode_update(ctx, buf) ==
    IF Len(buf) = 0 THEN ctx
    ELSE base64_decode_update(DecodeSingle(ctx, Head(buf)), Tail(buf))

(***************************************************************************)
(* The trust store                                                         *)
(***************************************************************************)
\* fprintf(out, "%ld", expiration), expiration >= 0
RECURSIVE Decimal(_)
Decimal(n) ==
    IF n < 10 THEN <<48 + n>> ELSE Decimal(n \div 10) \o <<48 + (n % 10)>>

\* utils_djb2_hash(host). The names of the model are short enough for the
\* 32-bit hash not to wrap.
RECURSIVE djb2(_, _)
djb2(hash, str) ==
    IF Len(str) = 0 THEN hash ELSE djb2(hash * 33 + Head(str), Tail(str))

utils_djb2_hash(str) == djb2(5381, str)

\* cert_store_cache_filename: one file per hash value, in db_name
cert_store_cache_filename(host) == utils_djb2_hash(host)

NoFile == <<-1>>
NoRec == [name |-> <<>>, exp |-> -1, key |-> <<>>, via |-> "none"]

\* sizeof(buf) in cert_tdb_verify
BUF_SIZE == 4096

\* fgets(buf, sizeof(buf), in) at offset pos of the file: the characters up to and
\* including the next newline (at most sizeof(buf) - 1), or NULL at end of file.
FgetsLen(file, pos) ==
    LET stops == {i \in (pos + 1)..Len(file) : file[i] = NL}
        upto == IF stops = {} THEN Len(file)
                ELSE CHOOSE i \in stops : \A j \in stops : i <= j
    IN Min(upto - pos, BUF_SIZE - 1)

fgets(file, pos) ==
    IF pos >= Len(file) THEN [null |-> TRUE, buf |-> <<>>, pos |-> pos]
    ELSE [null |-> FALSE,
          buf |-> SubSeq(file, pos + 1, pos + FgetsLen(file, pos)),
          pos |-> pos + FgetsLen(file, pos)]

\* The characters fprintf(out, "%s\n", b64) writes: b64 is a stack array that
\* base64_encode_raw fills without a terminating NUL, so "%s" goes on through
\* whatever the stack holds (tail) up to the first NUL.
StoredFile(expiration, pubkey, tail) ==
    Decimal(expiration) \o <<NL>> \o base64_encode_raw(pubkey) \o tail \o <<NL>>

\* cert_tdb_store: rewrites the record file of host in full.
cert_tdb_store(db, host, expiration, pubkey, tail) ==
    [db EXCEPT ![cert_store_cache_filename(host)] =
                   StoredFile(expiration, pubkey, tail)]

GNUTLS_E_SUCCESS == "GNUTLS_E_SUCCESS"
GNUTLS_E_NO_CERTIFICATE_FOUND == "GNUTLS_E_NO_CERTIFICATE_FOUND"
GNUTLS_E_CERTIFICATE_KEY_MISMATCH == "GNUTLS_E_CERTIFICATE_KEY_MISMATCH"

\* cert_tdb_verify: [rv, unlink] for the record file of host and the presented key.
cert_tdb_verify(db, host, pubkey) ==
    LET file == db[cert_store_cache_filename(host)]
        l1 == fgets(file, 0)
        l2 == fgets(file, l1.pos)
        dec == base64_decode_update(DecodeInit, l2.buf)
    IN IF file = NoFile
       THEN [rv |-> GNUTLS_E_NO_CERTIFICATE_FOUND, unlink |-> TRUE]
       ELSE IF l1.null
       THEN [rv |-> GNUTLS_E_NO_CERTIFICATE_FOUND, unlink |-> TRUE]
       ELSE IF l2.null
       THEN [rv |-> GNUTLS_E_NO_CERTIFICATE_FOUND, unlink |-> TRUE]
       ELSE IF ~dec.ok
       THEN [rv |-> GNUTLS_E_CERTIFICATE_KEY_MISMATCH, unlink |-> TRUE]
       ELSE IF Len(pubkey) # Len(dec.out)
       THEN [rv |-> GNUTLS_E_CERTIFICATE_KEY_MISMATCH, unlink |-> FALSE]
       ELSE IF pubkey # dec.out
       THEN [rv |-> GNUTLS_E_CERTIFICATE_KEY_MISMATCH, unlink |-> FALSE]
       ELSE [rv |-> GNUTLS_E_SUCCESS, unlink |-> FALSE]

\* unlink(filename)
Unlink(db, host) == [db EXCEPT ![cert_store_cache_filename(host)] = NoFile]

(***************************************************************************)
(* Streams                                                                 *)
(***************************************************************************)
\* A pointer of a stream: into its current storage (data + off), NULL, or into
\* storage the stream no longer has (stale).
NullPtr == [base |-> "null", off |-> 0]
DataPtr(off) == [base |-> "data", off |-> off]

\* struct stream as static storage has it: everything zero.
ZeroStream == [size |-> 0, data |-> FALSE, bytes |-> <<>>, p |-> NullPtr, end |-> NullPtr]

\* ptr - s->data, for a cursor that points into the storage (or NULL - NULL).
PtrOff(s, ptr) == IF ptr.base = "data" THEN ptr.off ELSE 0

\* The cursors of s can be subtracted from s->data.
Valid(s) ==
    \/ s.data /\ s.p.base = "data" /\ s.end.base = "data"
    \/ ~s.data /\ s.p.base = "null" /\ s.end.base = "null"

\* The initial capacity tcp_connect gives g_in and every g_out[i].
INITIAL_SIZE == 4096

\* g_in.size = 4096; g_in.data = xmalloc(g_in.size): the cursors are not set, so
\* they keep pointing where they did (the old storage, or NULL).
Reallocated(ptr) == IF ptr.base = "data" THEN [base |-> "stale", off |-> ptr.off] ELSE ptr

ConnectStream(s) ==
    [size |-> INITIAL_SIZE, data |-> TRUE, bytes |-> <<>>,
     p |-> Reallocated(s.p), end |-> Reallocated(s.end)]

\* s_realloc(s, size) of stream.c: grows the storage, the cursors rebased.
s_realloc(s, size) ==
    IF s.size >= size THEN s
    ELSE [s EXCEPT !.size = size, !.data = TRUE,
                   !.p = DataPtr(PtrOff(s, s.p)), !.end = DataPtr(PtrOff(s, s.end))]

\* s_reset(s) of stream.c: s->end = s->p = s->data.
s_reset(s) ==
    [s EXCEPT !.bytes = <<>>,
              !.p = IF s.data THEN DataPtr(0) ELSE NullPtr,
              !.end = IF s.data THEN DataPtr(0) ELSE NullPtr]

\* s->data[i - 1]; what lies beyond the bytes written is not initialized (0).
ByteAt(s, i) == IF i <= Len(s.bytes) THEN s.bytes[i] ELSE 0

\* memory s->data + from .. s->data + from + n - 1
Slice(s, from, n) == [i \in 1..n |-> ByteAt(s, from + i)]

STREAM_COUNT_SCARD == 8
STREAM_COUNT_DEFAULT == 1

\* #define STREAM_COUNT
STREAM_COUNT == IF with_scard THEN STREAM_COUNT_SCARD ELSE STREAM_COUNT_DEFAULT

(***************************************************************************)
(* Threads, calls, the transport                                           *)
(***************************************************************************)
\* The protocol thread; with WITH_SCARD also the smart card thread, which
\* sends through the same layer.
Threads == {"main", "scard"}
Active == IF with_scard THEN Threads ELSE {"main"}

\* The longest payload and the longest receive of the model.
MaxLen == 2
\* How many bytes the transport holds before a write would block.
WireCap == 2
\* How far a caller's stream is filled by appending receives.
MaxBuf == 3

NoRef == [k |-> "none", i |-> 0]
InRef == [k |-> "g_in", i |-> 0]
ExtRef == [k |-> "ext", i |-> 0]
OutRef(i) == [k |-> "g_out", i |-> i]

\* *s
Deref(ref) ==
    IF ref.k = "g_in" THEN g_in
    ELSE IF ref.k = "ext" THEN ext
    ELSE IF ref.k = "g_out" THEN g_out[ref.i]
    ELSE ZeroStream

None == <<-1>>

\* The locals of tcp_send (length, total) and of tcp_recv (length), with the
\* history of the call: rc, what the last turn of the loop left in sent or
\* rcvd, -1 before the first turn; want, the length the call began with (the
\* maxlen of tcp_init, until the stream is sent); tx, the bytes handed to or
\* taken from the transport; start, s->end - s->data when tcp_recv began to
\* read; expect, the bytes a tcp_send put on the empty transport right before
\* this tcp_recv; age, the calls of tcp_init since the one that returned s,
\* counted up to STREAM_COUNT.
NoFrame == [s |-> NoRef, length |-> 0, total |-> 0, rc |-> -1, tx |-> <<>>,
            want |-> 0, start |-> 0, expect |-> None, age |-> 0]

\* The payload a caller writes into an outbound stream: 1, 2, .., n.
Payload(n) == [i \in 1..n |-> i]

\* Streams a caller may own before it calls tcp_recv with them: all zero; two
\* bytes of storage, one of them valid and not yet read; one byte of storage,
\* valid and read.
ExtInit ==
    {ZeroStream,
     [size |-> 2, data |-> TRUE, bytes |-> <<9>>, p |-> DataPtr(0), end |-> DataPtr(1)],
     [size |-> 1, data |-> TRUE, bytes |-> <<9>>, p |-> DataPtr(1), end |-> DataPtr(1)]}

\* The caller has no stream of its own: it has tcp_recv read into g_in, and
\* appends to the stream tcp_recv returned.
NoExt == [size |-> -1, data |-> FALSE, bytes |-> <<>>, p |-> NullPtr, end |-> NullPtr]

\* A return: the thread, the function, the line of the return statement (or of
\* the closing brace); for a completed transfer the result of its last turn
\* (rc) and, when the transport was empty before the send, the bytes moved (rt).
NoLast == [t |-> "none", op |-> "none", line |-> 0, rc |-> -1, rt |-> None]

Returned(t, op, line) == [t |-> t, op |-> op, line |-> line, rc |-> -1, rt |-> None]

\* tcp_recv returned NULL
ReturnsNull(l) == l.op = "tcp_recv" /\ l.line \in {346, 384, 394, 415, 421}

\* scard_lock(SCARD_LOCK_TCP) can return; scard_unlock(SCARD_LOCK_TCP)
CanLock == ~with_scard \/ lock = "free"

\* Not the code: an exit path of tcp_send without scard_unlock.
StillLocked == lock

Unlocked == IF with_scard THEN "free" ELSE lock

(***************************************************************************)
(* tcp_init                                                                *)
(***************************************************************************)
tcp_init_stream(s, maxlen) == s_reset(s_realloc(s, maxlen))

\* Not the code: cur_stream_id is not advanced.
tcp_init_same(cur) == cur

\* cur_stream_id = (cur_stream_id + 1) % STREAM_COUNT
tcp_init_next(cur) == (cur + 1) % STREAM_COUNT

\* Thread t holds a stream tcp_init returned to it and has not sent it yet, or
\* is sending it.
InFlight(t) == pc[t] \in {"acquired", "filled", "send_lock", "send"}

TcpInit(t, maxlen) ==
    /\ t \in Active
    /\ pc[t] = "idle"
    /\ CanLock
    /\ g_out' = [g_out EXCEPT ![cur_stream_id] = tcp_init_stream(@, maxlen)]
    /\ cur_stream_id' = tcp_init_next(cur_stream_id)
    /\ pc' = [pc EXCEPT ![t] = "acquired"]
    /\ fr' = [u \in Threads |->
                IF u = t
                THEN [NoFrame EXCEPT !.s = OutRef(cur_stream_id), !.want = maxlen]
                ELSE IF InFlight(u)
                THEN [fr[u] EXCEPT !.age = Min(@ + 1, STREAM_COUNT)]
                ELSE fr[u]]
    /\ last' = Returned(t, "tcp_init", 274)
    /\ UNCHANGED <<with_scard, g_network_error, g_ssl_initialized, g_run_ui,
                   g_exit_mainloop, g_in, ext, lock, wire>>
    /\ UNCHANGED trustVars
    /\ UNCHANGED connVars

\* The caller writes n bytes into the stream tcp_init returned and marks its end.
Produce(t, n) ==
    /\ pc[t] = "acquired"
    /\ n <= g_out[fr[t].s.i].size
    /\ g_out' = [g_out EXCEPT ![fr[t].s.i] =
                    [@ EXCEPT !.bytes = Payload(n), !.p = DataPtr(n), !.end = DataPtr(n)]]
    /\ pc' = [pc EXCEPT ![t] = "filled"]
    /\ UNCHANGED <<with_scard, g_network_error, g_ssl_initialized, g_run_ui,
                   g_exit_mainloop, g_in, cur_stream_id, ext, lock, fr, wire, last>>
    /\ UNCHANGED trustVars
    /\ UNCHANGED connVars

(***************************************************************************)
(* tcp_send                                                                *)
(***************************************************************************)
\* int length = s->end - s->data
tcp_send_length(s) == PtrOff(s, s.end)

\* if (g_network_error == True) return;
tcp_send_short(err) == err

\* The entry of tcp_send(s).
SendCall(t) ==
    /\ pc[t] = "filled"
    /\ IF tcp_send_short(g_network_error)
       THEN /\ pc' = [pc EXCEPT ![t] = "idle"]
            /\ fr' = [fr EXCEPT ![t] = NoFrame]
            /\ last' = Returned(t, "tcp_send", 285)
       ELSE /\ pc' = [pc EXCEPT ![t] = IF with_scard THEN "send_lock" ELSE "send"]
            /\ fr' = [fr EXCEPT ![t] =
                        [@ EXCEPT !.length = tcp_send_length(Deref(fr[t].s)),
                                  !.want = tcp_send_length(Deref(fr[t].s)),
                                  !.total = 0, !.tx = <<>>,
                                  !.expect = IF wire = <<>> THEN <<>> ELSE None]]
            /\ last' = last
    /\ UNCHANGED <<with_scard, g_network_error, g_ssl_initialized, g_run_ui,
                   g_exit_mainloop, g_in, g_out, cur_stream_id, ext, lock, wire>>
    /\ UNCHANGED trustVars
    /\ UNCHANGED connVars

\* scard_lock(SCARD_LOCK_TCP) of tcp_send
SendLock(t) ==
    /\ pc[t] = "send_lock"
    /\ lock = "free"
    /\ lock' = t
    /\ pc' = [pc EXCEPT ![t] = "send"]
    /\ UNCHANGED <<with_scard, g_network_error, g_ssl_initialized, g_run_ui,
                   g_exit_mainloop, g_in, g_out, cur_stream_id, ext, fr, wire, last>>
    /\ UNCHANGED trustVars
    /\ UNCHANGED connVars

\* Not the code: a loop that gives the transport one turn only.
tcp_send_once(total, length) == total = 0 /\ length > 0

\* while (total < length)
tcp_send_more(total, length) == total < length

\* total += sent
tcp_send_total(total, sent) == total + sent

\* One turn of the loop in which the transport (send or gnutls_record_send)
\* takes sent > 0 of the bytes offered, s->data + total onwards.
SendBytes(t, sent) ==
    /\ pc[t] = "send"
    /\ tcp_send_more(fr[t].total, fr[t].length)
    /\ sent \in 1..(fr[t].length - fr[t].total)
    /\ Len(wire) + sent <= WireCap
    /\ wire' = wire \o Slice(Deref(fr[t].s), fr[t].total, sent)
    /\ fr' = [fr EXCEPT ![t] =
                [@ EXCEPT !.total = tcp_send_total(fr[t].total, sent), !.rc = sent,
                          !.tx = @ \o Slice(Deref(fr[t].s), fr[t].total, sent)]]
    /\ UNCHANGED <<with_scard, g_network_error, g_ssl_initialized, g_run_ui,
                   g_exit_mainloop, g_in, g_out, cur_stream_id, ext, lock, pc, last>>
    /\ UNCHANGED trustVars
    /\ UNCHANGED connVars

\* Not the code: the result of the transport is added as it came.
tcp_send_blocked_raw(sent) == sent

\* tcp_can_send(g_sock, 100); sent = 0
tcp_send_blocked(sent) == 0

\* One turn in which the transport would block (send: -1 with EWOULDBLOCK;
\* gnutls_record_send: a result <= 0 that is not fatal): tcp_can_send(g_sock,
\* 100), sent = 0.
SendWouldBlock(t) ==
    /\ pc[t] = "send"
    /\ tcp_send_more(fr[t].total, fr[t].length)
    /\ fr' = [fr EXCEPT ![t] =
                [@ EXCEPT !.total = tcp_send_total(fr[t].total, tcp_send_blocked(-1)),
                          !.rc = 0]]
    /\ UNCHANGED <<with_scard, g_network_error, g_ssl_initialized, g_run_ui,
                   g_exit_mainloop, g_in, g_out, cur_stream_id, ext, lock, pc,
                   wire, last>>
    /\ UNCHANGED trustVars
    /\ UNCHANGED connVars

\* The full transport drains while a tcp_send is in its loop: the peer reads
\* a byte, so that send (or gnutls_record_send) can take more.
PeerReads ==
    /\ \E t \in Threads : pc[t] = "send"
    /\ Len(wire) = WireCap
    /\ wire' = Tail(wire)
    /\ UNCHANGED <<with_scard, g_network_error, g_ssl_initialized, g_run_ui,
                   g_exit_mainloop, g_in, g_out, cur_stream_id, ext, lock, pc,
                   fr, last>>
    /\ UNCHANGED trustVars
    /\ UNCHANGED connVars

\* Data arrives on the empty transport while tcp_recv is in its loop: the peer
\* writes a byte, so that recv (or gnutls_record_recv) has something to deliver.
PeerWrites(b) ==
    /\ pc["main"] = "recv"
    /\ wire = <<>>
    /\ wire' = <<b>>
    /\ UNCHANGED <<with_scard, g_network_error, g_ssl_initialized, g_run_ui,
                   g_exit_mainloop, g_in, g_out, cur_stream_id, ext, lock, pc,
                   fr, last>>
    /\ UNCHANGED trustVars
    /\ UNCHANGED connVars

\* g_network_error after a fatal result of the transport in tcp_send
tcp_send_fatal_flag == TRUE

\* One turn in which the transport fails for good (send: <= 0 and not
\* EWOULDBLOCK; gnutls_record_send: a fatal error).
SendFatal(t) ==
    /\ pc[t] = "send"
    /\ tcp_send_more(fr[t].total, fr[t].length)
    /\ lock' = Unlocked
    /\ g_network_error' = tcp_send_fatal_flag
    /\ pc' = [pc EXCEPT ![t] = "idle"]
    /\ fr' = [fr EXCEPT ![t] = NoFrame]
    /\ last' = Returned(t, "tcp_send", IF g_ssl_initialized THEN 302 ELSE 327)
    /\ UNCHANGED <<with_scard, g_ssl_initialized, g_run_ui, g_exit_mainloop, g_in,
                   g_out, cur_stream_id, ext, wire>>
    /\ UNCHANGED trustVars
    /\ UNCHANGED connVars

\* The loop is left: the lock is released and tcp_send returns.
SendDone(t) ==
    /\ pc[t] = "send"
    /\ ~tcp_send_more(fr[t].total, fr[t].length)
    /\ lock' = Unlocked
    /\ pc' = [pc EXCEPT ![t] = "idle"]
    /\ fr' = [fr EXCEPT ![t] = NoFrame]
    /\ last' = [t |-> t, op |-> "tcp_send", line |-> 336, rc |-> fr[t].rc,
                rt |-> IF fr[t].expect = None THEN None ELSE fr[t].tx]
    /\ UNCHANGED <<with_scard, g_network_error, g_ssl_initialized, g_run_ui,
                   g_exit_mainloop, g_in, g_out, cur_stream_id, ext, wire>>
    /\ UNCHANGED trustVars
    /\ UNCHANGED connVars

(***************************************************************************)
(* tcp_recv                                                                *)
(***************************************************************************)
\* Not the code: a tcp_recv that does not look at g_network_error.
tcp_recv_unchecked(err) == FALSE

\* if (g_network_error == True) return NULL;
tcp_recv_short(err) == err

\* s == NULL: read into g_in, grown to length if smaller, as a new stream
tcp_recv_new(s, length) ==
    [size |-> IF length > s.size THEN length ELSE s.size,
     data |-> TRUE, bytes |-> <<>>, p |-> DataPtr(0), end |-> DataPtr(0)]

\* new_length = (s->end - s->data) + length
tcp_recv_new_length(s, length) == PtrOff(s, s.end) + length

\* Not the code: growth that sets s->p to the new s->data.
tcp_recv_append_reset(s, length) ==
    IF tcp_recv_new_length(s, length) > s.size
    THEN [size |-> tcp_recv_new_length(s, length), data |-> TRUE,
          bytes |-> s.bytes, p |-> DataPtr(0), end |-> DataPtr(PtrOff(s, s.end))]
    ELSE s

\* s != NULL: append to s, grown to new_length if smaller, p and end rebased
tcp_recv_append(s, length) ==
    IF tcp_recv_new_length(s, length) > s.size
    THEN [size |-> tcp_recv_new_length(s, length), data |-> TRUE,
          bytes |-> s.bytes,
          p |-> DataPtr(PtrOff(s, s.p)), end |-> DataPtr(PtrOff(s, s.end))]
    ELSE s

\* The bytes tcp_recv is to return if the call before it was a tcp_send of
\* length bytes onto the empty transport.
Expected(length) ==
    IF last.op = "tcp_send" /\ last.line = 336 /\ last.rt # None
       /\ Len(last.rt) = length
    THEN last.rt ELSE None

\* The entry of tcp_recv(s, length); dest is NoRef for s == NULL, InRef for
\* the stream an earlier tcp_recv(NULL, ..) returned, ExtRef for the caller's.
RecvCall(t, dest, length) ==
    /\ t = "main"
    /\ pc[t] = "idle"
    /\ dest \in {NoRef, InRef, ExtRef}
    /\ (dest = ExtRef) = (ext # NoExt)
    /\ dest # NoRef =>
          /\ Valid(Deref(dest))
          /\ PtrOff(Deref(dest), Deref(dest).end) + length <= MaxBuf
    /\ dest = InRef => g_in.data
    /\ IF tcp_recv_short(g_network_error)
       THEN /\ last' = Returned(t, "tcp_recv", 346)
            /\ UNCHANGED <<g_in, ext, pc, fr>>
       ELSE /\ g_in' = IF dest = NoRef THEN tcp_recv_new(g_in, length)
                      ELSE IF dest = InRef THEN tcp_recv_append(g_in, length)
                      ELSE g_in
            /\ ext' = IF dest = ExtRef THEN tcp_recv_append(ext, length) ELSE ext
            /\ pc' = [pc EXCEPT ![t] = "recv"]
            /\ fr' = [fr EXCEPT ![t] =
                        [NoFrame EXCEPT !.s = IF dest = NoRef THEN InRef ELSE dest,
                                        !.length = length, !.want = length,
                                        !.start =
                                           IF dest = NoRef THEN 0
                                           ELSE PtrOff(Deref(dest), Deref(dest).end),
                                        !.expect = Expected(length)]]
            /\ last' = last
    /\ UNCHANGED <<with_scard, g_network_error, g_ssl_initialized, g_run_ui,
                   g_exit_mainloop, cur_stream_id, g_out, lock, wire>>
    /\ UNCHANGED trustVars
    /\ UNCHANGED connVars

\* while (length > 0)
tcp_recv_more(length) == length > 0

\* Not the code: a turn that never looks at g_exit_mainloop.
UiPassUnchecked == TRUE

\* The turn goes on to the read: ui_select was not called (no event loop, or
\* TLS has data pending) or g_exit_mainloop was not set after it.
UiPass == ~g_run_ui \/ g_ssl_initialized \/ ~g_exit_mainloop

\* Not the code: the rcvd bytes written at s->data.
tcp_recv_store_front(s, chunk) ==
    [s EXCEPT !.bytes = chunk \o SubSeq(s.bytes, Len(chunk) + 1, Len(s.bytes)),
              !.end = DataPtr(PtrOff(s, s.end) + Len(chunk))]

\* s->end += rcvd, the rcvd bytes written at the old s->end
tcp_recv_store(s, chunk) ==
    [s EXCEPT !.bytes = SubSeq(s.bytes, 1, PtrOff(s, s.end)) \o chunk,
              !.end = DataPtr(PtrOff(s, s.end) + Len(chunk))]

\* length -= rcvd
tcp_recv_left(length, rcvd) == length - rcvd

\* One turn in which ui_select(g_sock) returns with g_exit_mainloop set.
RecvExit(t) ==
    /\ pc[t] = "recv"
    /\ tcp_recv_more(fr[t].length)
    /\ g_run_ui
    /\ g_exit_mainloop' = TRUE
    /\ pc' = [pc EXCEPT ![t] = "idle"]
    /\ fr' = [fr EXCEPT ![t] = NoFrame]
    /\ last' = Returned(t, "tcp_recv", 384)
    /\ UNCHANGED <<with_scard, g_network_error, g_ssl_initialized, g_run_ui, g_in,
                   g_out, cur_stream_id, ext, lock, wire>>
    /\ UNCHANGED trustVars
    /\ UNCHANGED connVars

\* One turn in which the transport (recv or gnutls_record_recv) delivers
\* rcvd > 0 bytes at s->end.
RecvBytes(t, rcvd) ==
    /\ pc[t] = "recv"
    /\ tcp_recv_more(fr[t].length)
    /\ UiPass
    /\ rcvd \in 1..Min(fr[t].length, Len(wire))
    /\ g_in' = IF fr[t].s = InRef
               THEN tcp_recv_store(g_in, SubSeq(wire, 1, rcvd)) ELSE g_in
    /\ ext' = IF fr[t].s = ExtRef
              THEN tcp_recv_store(ext, SubSeq(wire, 1, rcvd)) ELSE ext
    /\ wire' = SubSeq(wire, rcvd + 1, Len(wire))
    /\ fr' = [fr EXCEPT ![t] =
                [@ EXCEPT !.length = tcp_recv_left(fr[t].length, rcvd), !.rc = rcvd,
                          !.tx = @ \o SubSeq(wire, 1, rcvd)]]
    /\ UNCHANGED <<with_scard, g_network_error, g_ssl_initialized, g_run_ui,
                   g_exit_mainloop, g_out, cur_stream_id, lock, pc, last>>
    /\ UNCHANGED trustVars
    /\ UNCHANGED connVars

\* One turn in which nothing is read (recv: -1 with EWOULDBLOCK;
\* gnutls_record_recv: 0, or a negative result that is not fatal): rcvd = 0.
RecvWouldBlock(t) ==
    /\ pc[t] = "recv"
    /\ tcp_recv_more(fr[t].length)
    /\ UiPass
    /\ fr' = [fr EXCEPT ![t] =
                [@ EXCEPT !.length = tcp_recv_left(fr[t].length, 0), !.rc = 0]]
    /\ UNCHANGED <<with_scard, g_network_error, g_ssl_initialized, g_run_ui,
                   g_exit_mainloop, g_in, g_out, cur_stream_id, ext, lock, pc,
                   wire, last>>
    /\ UNCHANGED trustVars
    /\ UNCHANGED connVars

\* g_network_error after a fatal result of the transport in tcp_recv
tcp_recv_fatal_flag == TRUE

\* One turn in which the transport fails for good (recv: < 0 and not
\* EWOULDBLOCK; gnutls_record_recv: a fatal error).
RecvFatal(t) ==
    /\ pc[t] = "recv"
    /\ tcp_recv_more(fr[t].length)
    /\ UiPass
    /\ g_network_error' = tcp_recv_fatal_flag
    /\ pc' = [pc EXCEPT ![t] = "idle"]
    /\ fr' = [fr EXCEPT ![t] = NoFrame]
    /\ last' = Returned(t, "tcp_recv", IF g_ssl_initialized THEN 394 ELSE 415)
    /\ UNCHANGED <<with_scard, g_ssl_initialized, g_run_ui, g_exit_mainloop, g_in,
                   g_out, cur_stream_id, ext, lock, wire>>
    /\ UNCHANGED trustVars
    /\ UNCHANGED connVars

\* g_network_error after recv returned 0 on the plaintext socket
tcp_recv_closed_flag(err) == err

\* One turn in which recv returns 0 on the plaintext socket: the peer closed.
RecvClosed(t) ==
    /\ pc[t] = "recv"
    /\ tcp_recv_more(fr[t].length)
    /\ UiPass
    /\ ~g_ssl_initialized
    /\ g_network_error' = tcp_recv_closed_flag(g_network_error)
    /\ pc' = [pc EXCEPT ![t] = "idle"]
    /\ fr' = [fr EXCEPT ![t] = NoFrame]
    /\ last' = Returned(t, "tcp_recv", 421)
    /\ UNCHANGED <<with_scard, g_ssl_initialized, g_run_ui, g_exit_mainloop, g_in,
                   g_out, cur_stream_id, ext, lock, wire>>
    /\ UNCHANGED trustVars
    /\ UNCHANGED connVars

\* The loop is left: tcp_recv returns s.
RecvDone(t) ==
    /\ pc[t] = "recv"
    /\ ~tcp_recv_more(fr[t].length)
    /\ pc' = [pc EXCEPT ![t] = "idle"]
    /\ fr' = [fr EXCEPT ![t] = NoFrame]
    /\ last' = [t |-> t, op |-> "tcp_recv", line |-> 429, rc |-> fr[t].rc,
                rt |-> IF fr[t].expect = None THEN None ELSE fr[t].tx]
    /\ UNCHANGED <<with_scard, g_network_error, g_ssl_initialized, g_run_ui,
                   g_exit_mainloop, g_in, g_out, cur_stream_id, ext, lock, wire>>
    /\ UNCHANGED trustVars
    /\ UNCHANGED connVars

(***************************************************************************)
(* tcp_connect, tcp_disconnect                                             *)
(***************************************************************************)
\* A NULL pointer to a string or to an address.
NULLP == "(null)"

\* The servers a user names: a farm name that DNS answers round robin, and a
\* dotted quad.
Hosts == {"farm", "10.0.0.1"}

\* The addresses a name stands for.
Addrs(server) == IF server = "farm" THEN {"a1", "a2"} ELSE {server}

AllAddrs == UNION {Addrs(h) : h \in Hosts}

\* What the resolver can answer for a name: nothing (the lookup fails), or
\* some of its addresses in some order.
DnsAnswers(server) ==
    {<<>>} \cup {<<a>> : a \in Addrs(server)}
           \cup ({<<a, b>> : a, b \in Addrs(server)} \ {<<a, a>> : a \in Addrs(server)})

\* What can go wrong with the first socket of a call.
Faults == {"none", "socket", "getnameinfo"}

\* The descriptor socket() returns.
Fd == 3

\* inet_addr(server)
inet_addr(server) == IF server = "farm" THEN "INADDR_NONE" ELSE server

\* Not the code: resolving only while no address is cached.
tcp_connect_resolve_once(addr, name, server) == addr = NULLP

\* tcp_connect_resolve_hostname(server), of the two globals it reads
tcp_connect_resolve_hostname(addr, name, server) ==
    addr = NULLP \/ name = NULLP \/ name # server

\* The loop of the IPv6 build over the list res from its i-th entry: the
\* socket and the entry it ends with, and whether it returned False from
\* inside (getnameinfo failed, the socket left open).
RECURSIVE TryAddrs(_, _, _, _)
TryAddrs(res, i, up, fault) ==
    IF i > Len(res) THEN [g_sock |-> -1, addr |-> NULLP, ret |-> FALSE]
    ELSE IF fault = "socket" /\ i = 1 THEN TryAddrs(res, i + 1, up, fault)
    ELSE IF fault = "getnameinfo" /\ i = 1
         THEN [g_sock |-> Fd, addr |-> res[i], ret |-> TRUE]
    ELSE IF res[i] \in up THEN [g_sock |-> Fd, addr |-> res[i], ret |-> FALSE]
    ELSE TryAddrs(res, i + 1, up, fault)

\* tcp_connect(server) with IPv6 defined, up to the code the builds share:
\* whether it goes on to it (ok), whether it resolved, and the globals.
tcp_connect_ipv6(addr, name, sock, server, dns, up, fault) ==
    LET resolve == tcp_connect_resolve_hostname(addr, name, server)
        res == IF resolve THEN dns ELSE <<addr>>
        try == TryAddrs(res, 1, up, fault)
    IN  IF resolve /\ dns = <<>>
        THEN [ok |-> FALSE, resolved |-> TRUE, g_server_address |-> addr,
              g_sock |-> sock, addr |-> NULLP, line |-> 809]
        ELSE IF try.ret \/ try.g_sock = -1
        THEN [ok |-> FALSE, resolved |-> resolve, g_server_address |-> addr,
              g_sock |-> try.g_sock, addr |-> NULLP,
              line |-> IF try.ret THEN 834 ELSE 849]
        ELSE [ok |-> TRUE, resolved |-> resolve, g_server_address |-> try.addr,
              g_sock |-> try.g_sock, addr |-> try.addr, line |-> 948]

\* tcp_connect(server) without IPv6, up to the code the builds share.
tcp_connect_ipv4(addr, name, sock, server, dns, up, fault) ==
    LET resolve == tcp_connect_resolve_hostname(addr, name, server)
        sin_addr == IF ~resolve THEN addr
                    ELSE IF dns # <<>> THEN dns[1]
                    ELSE inet_addr(server)
    IN  IF resolve /\ sin_addr = "INADDR_NONE"
        THEN [ok |-> FALSE, resolved |-> TRUE, g_server_address |-> sin_addr,
              g_sock |-> sock, addr |-> NULLP, line |-> 894]
        ELSE IF fault = "socket"
        THEN [ok |-> FALSE, resolved |-> resolve, g_server_address |-> sin_addr,
              g_sock |-> -1, addr |-> NULLP, line |-> 901]
        ELSE IF sin_addr \notin up
        THEN [ok |-> FALSE, resolved |-> resolve, g_server_address |-> sin_addr,
              g_sock |-> -1, addr |-> NULLP, line |-> 915]
        ELSE [ok |-> TRUE, resolved |-> resolve, g_server_address |-> sin_addr,
              g_sock |-> Fd, addr |-> sin_addr, line |-> 948]

\* History of the tcp_connect calls: of the last call, its server, whether it
\* resolved, whether it returned True, the line of its return statement and the
\* address it connected to; prev,
\* the server of the call before it; okhost, the server of the last call that
\* returned True.
NoConn == [seq |-> 0, server |-> NULLP, resolved |-> FALSE, ok |-> FALSE,
           line |-> 0, addr |-> NULLP, prev |-> NULLP, okhost |-> NULLP]

\* History of the TLS layer: fn, the function called last (tcp_tls_connect or
\* tcp_disconnect); ops, the library calls it made, in order; hs, the results
\* gnutls_handshake gave it; ret, how it ended: "True", "False", "void", or the
\* process ended inside it ("exit", "abort", "segv").
NoTls == [seq |-> 0, fn |-> "none", ops |-> <<>>, hs |-> <<>>, ret |-> "none"]

\* The process runs.
Alive == tls.ret \notin {"exit", "abort", "segv"}

\* tcp_connect(server): dns is what the resolver would answer, up the
\* addresses that accept a connection, fault what fails for the first socket.
TcpConnect(server, dns, up, fault) ==
    /\ Alive
    /\ \A t \in Threads : pc[t] = "idle"
    /\ \E out \in {IF ipv6
                   THEN tcp_connect_ipv6(g_server_address, g_last_server_name,
                                         g_sock, server, dns, up, fault)
                   ELSE tcp_connect_ipv4(g_server_address, g_last_server_name,
                                         g_sock, server, dns, up, fault)} :
          /\ g_server_address' = out.g_server_address
          /\ g_sock' = out.g_sock
          /\ g_last_server_name' = IF out.ok THEN server ELSE g_last_server_name
          /\ g_in' = IF out.ok THEN ConnectStream(g_in) ELSE g_in
          /\ g_out' = IF out.ok THEN [i \in DOMAIN g_out |-> ConnectStream(g_out[i])]
                      ELSE g_out
          /\ conn' = [seq |-> 1 - conn.seq, server |-> server,
                      resolved |-> out.resolved, ok |-> out.ok,
                      line |-> out.line, addr |-> out.addr,
                      prev |-> conn.server,
                      okhost |-> IF out.ok THEN server ELSE conn.okhost]
          /\ wire' = IF out.ok THEN <<>> ELSE wire
    /\ UNCHANGED <<with_scard, g_network_error, g_ssl_initialized, g_run_ui,
                   g_exit_mainloop, cur_stream_id, ext, lock, pc, fr, last,
                   ipv6, tls>>
    /\ UNCHANGED trustVars

\* g_in.size = 0; xfree(g_in.data); g_in.data = NULL: the cursors keep pointing
\* into the freed storage.
DisconnectStream(s) ==
    [size |-> 0, data |-> FALSE, bytes |-> <<>>,
     p |-> Reallocated(s.p), end |-> Reallocated(s.end)]

\* The calls tcp_disconnect makes, in order.
tcp_disconnect_ops(ssl) ==
    (IF ssl THEN <<"gnutls_bye", "gnutls_deinit", "gnutls_global_deinit">> ELSE <<>>)
       \o <<"close", "xfree">>

\* tcp_disconnect()
TcpDisconnect ==
    /\ Alive
    /\ \A t \in Threads : pc[t] = "idle"
    /\ g_ssl_initialized' = FALSE
    /\ tls' = [seq |-> 1 - tls.seq, fn |-> "tcp_disconnect",
               ops |-> tcp_disconnect_ops(g_ssl_initialized), hs |-> <<>>,
               ret |-> "void"]
    /\ g_sock' = -1
    /\ g_in' = DisconnectStream(g_in)
    /\ g_out' = [i \in DOMAIN g_out |-> DisconnectStream(g_out[i])]
    /\ UNCHANGED <<with_scard, g_network_error, g_run_ui, g_exit_mainloop,
                   cur_stream_id, ext, lock, pc, fr, wire, last, ipv6,
                   g_server_address, g_last_server_name, conn>>
    /\ UNCHANGED trustVars

(***************************************************************************)
(* tcp_is_connected                                                        *)
(***************************************************************************)
\* getpeername(g_sock, ..): 0 when the socket is open and has a peer, else -1
\* (EBADF for the closed socket, ENOTCONN when the peer is gone).
getpeername(sock, peer) == IF sock # -1 /\ peer THEN 0 ELSE -1

\* if (getpeername(..)) return True; return False;
tcp_is_connected(rc) == IF rc # 0 THEN "True" ELSE "False"

\* tcp_is_connected(); peer: the server still holds its end of the connection.
\* The history keeps the result of getpeername in ops.
TcpIsConnected(peer) ==
    /\ Alive
    /\ \A t \in Threads : pc[t] = "idle"
    /\ tls' = [seq |-> 1 - tls.seq, fn |-> "tcp_is_connected",
               ops |-> <<IF getpeername(g_sock, peer) = 0 THEN "getpeername: 0"
                         ELSE "getpeername: -1">>,
               hs |-> <<>>, ret |-> tcp_is_connected(getpeername(g_sock, peer))]
    /\ UNCHANGED <<ioVars, ipv6, g_server_address, g_last_server_name, g_sock, conn>>
    /\ UNCHANGED trustVars

(***************************************************************************)
(* tcp_reset_state, tcp_tls_get_server_pubkey                              *)
(***************************************************************************)
\* tcp_reset_state(): s_reset(&g_in) and s_reset(&g_out[i]) for every i.
TcpResetState ==
    /\ Alive
    /\ \A t \in Threads : pc[t] = "idle"
    /\ g_in' = s_reset(g_in)
    /\ g_out' = [i \in DOMAIN g_out |-> s_reset(g_out[i])]
    /\ last' = Returned("main", "tcp_reset_state", 1022)
    /\ UNCHANGED <<with_scard, g_network_error, g_ssl_initialized, g_run_ui,
                   g_exit_mainloop, cur_stream_id, ext, lock, pc, fr, wire>>
    /\ UNCHANGED trustVars
    /\ UNCHANGED connVars

\* The keys write_pkcs1_der_pubkey encodes; <<>> stands for a certificate no
\* RSA key can be taken from (goto out).
PubKeys == {<<>>, <<48, 13>>}

\* s->data = s->p = NULL; s->size = 0: s->end is not assigned, it keeps
\* pointing into the storage s had.
pubkey_cleared(s) ==
    [size |-> 0, data |-> FALSE, bytes |-> <<>>, p |-> NullPtr,
     end |-> Reallocated(s.end)]

\* s->size = pk_size; s->data = s->p = xmalloc(s->size); memcpy;
\* s->end = s->p + s->size
pubkey_stored(s, key) ==
    [size |-> Len(key), data |-> TRUE, bytes |-> key, p |-> DataPtr(0),
     end |-> DataPtr(Len(key))]

\* return (s->size != 0)
pubkey_ret(s) == IF s.size # 0 THEN "True" ELSE "False"

\* tcp_tls_get_server_pubkey(s) on the caller's stream. When it leaves by goto
\* out before gnutls_x509_crt_get_pk_rsa_raw has set m and e, the tests at out:
\* read them uninitialized: free() of a wild pointer ends the process (crash),
\* or the function returns.
TcpTlsGetServerPubkey(key, crash) ==
    /\ Alive
    /\ \A t \in Threads : pc[t] = "idle"
    /\ g_ssl_initialized
    /\ ext # NoExt
    /\ crash => key = <<>>
    /\ ext' = IF key = <<>> THEN pubkey_cleared(ext)
              ELSE pubkey_stored(pubkey_cleared(ext), key)
    /\ tls' = [seq |-> 1 - tls.seq, fn |-> "tcp_tls_get_server_pubkey",
               ops |-> <<>>, hs |-> <<>>,
               ret |-> IF crash THEN "segv" ELSE pubkey_ret(ext')]
    /\ UNCHANGED <<with_scard, g_network_error, g_ssl_initialized, g_run_ui,
                   g_exit_mainloop, g_in, g_out, cur_stream_id, lock, pc, fr,
                   wire, last, ipv6, g_server_address, g_last_server_name,
                   g_sock, conn>>
    /\ UNCHANGED trustVars

\* No tcp_connect has been called.
ConnQuiet ==
    /\ g_server_address = NULLP
    /\ g_last_server_name = NULLP
    /\ g_sock = -1
    /\ conn = NoConn
    /\ tls = NoTls

NextConn ==
    \/ \E server \in Hosts :
          \E dns \in DnsAnswers(server), up \in SUBSET AllAddrs, fault \in Faults :
             TcpConnect(server, dns, up, fault)
    \/ TcpDisconnect
    \/ \E peer \in BOOLEAN : TcpIsConnected(peer)

\* The I/O state right after the first tcp_connect of the process.
IoConnected ==
    /\ g_network_error = FALSE
    /\ g_exit_mainloop = FALSE
    /\ g_in = ConnectStream(ZeroStream)
    /\ g_out = [i \in 0..(STREAM_COUNT - 1) |-> ConnectStream(ZeroStream)]
    /\ cur_stream_id = 0
    /\ lock = "free"
    /\ pc = [t \in Threads |-> "idle"]
    /\ fr = [t \in Threads |-> NoFrame]
    /\ wire = <<>>
    /\ last = NoLast
    /\ ipv6 = TRUE
    /\ g_server_address = "a1"
    /\ g_last_server_name = "farm"
    /\ g_sock = Fd
    /\ conn = [NoConn EXCEPT !.seq = 1, !.server = "farm", !.resolved = TRUE,
                             !.ok = TRUE, !.line = 948, !.addr = "a1",
                             !.okhost = "farm"]
    /\ tls = NoTls

NextIO ==
    \/ \E t \in Threads, maxlen \in 1..MaxLen : TcpInit(t, maxlen)
    \/ \E t \in Threads, n \in 0..MaxLen : Produce(t, n)
    \/ \E t \in Threads : SendCall(t)
    \/ \E t \in Threads, sent \in 1..MaxLen : SendBytes(t, sent)
    \/ \E t \in Threads : SendWouldBlock(t)
    \/ \E t \in Threads : SendFatal(t)
    \/ \E t \in Threads : SendDone(t)
    \/ \E dest \in {NoRef, InRef, ExtRef}, length \in 0..MaxLen :
          RecvCall("main", dest, length)
    \/ RecvExit("main")
    \/ \E rcvd \in 1..MaxLen : RecvBytes("main", rcvd)
    \/ RecvWouldBlock("main")
    \/ RecvFatal("main")
    \/ RecvClosed("main")
    \/ RecvDone("main")

(***************************************************************************)
(* check_cert                                                              *)
(***************************************************************************)
\* Peer identities (the CN of the certificate). "aB" and "b!" have the same
\* djb2 hash, so they share one record file.
Names == {<<97, 66>>, <<98, 33>>, <<99>>}

\* Public keys: "ABCD", "EFGH"
Keys == {<<65, 66, 67, 68>>, <<69, 70, 71, 72>>}

\* Expiration times of the certificates
Expirations == {1700000000, 1800000000}

\* What follows the encoded key on the stack of cert_tdb_store, up to the first
\* NUL: nothing, or some character ("!").
Tails == {<<>>, <<33>>}

\* Record files no run of cert_tdb_store wrote: empty, cut after the first line
\* (with and without its newline), a key line that is no base64 ("QU!D").
CorruptFiles ==
    {<<>>,
     Decimal(1700000000),
     Decimal(1700000000) \o <<NL>>,
     Decimal(1700000000) \o <<NL, 81, 85, 33, 68, NL>>}

FileNames == {cert_store_cache_filename(n) : n \in Names}

\* The ways check_cert returns before it reaches the trust store.
CertEnvs == {"nohome", "notdir", "mkdirfail", "notx509", "nocerts", "nodn",
             "nocn", "emptycn", "pubkeyerr"}

\* util_dialog_choice(message, "no", "yes", NULL). With no answer (NULL) the code
\* calls strcmp(NULL, "no") before it tests for NULL: the process dies there or
\* the test is reached.
Prompts == {[answer |-> "yes", null |-> "-"], [answer |-> "no", null |-> "-"],
            [answer |-> "NULL", null |-> "segv"], [answer |-> "NULL", null |-> "bail"]}

\* gnutls_verify_stored_pubkey: the verify function of g_tdb; the record is
\* unlinked by cert_tdb_verify itself.
gnutls_verify_stored_pubkey(db, name, key) ==
    LET v == cert_tdb_verify(db, name, key) IN
    [rv |-> v.rv,
     db |-> IF v.unlink THEN Unlink(db, name) ELSE db,
     unlink |-> v.unlink]

\* check_cert(session) before the lookup: "ok" is return 0 (also the "return
\* False" of a missing HOME), "bail" is return 1.
check_cert_early(env) ==
    IF env \in {"nohome", "notx509", "nocerts"} THEN "ok" ELSE "bail"

\* check_cert(session) after gnutls_verify_stored_pubkey returned look: ret "ok"
\* is return 0, "bail" is return 1, "segv" is the process killed inside
\* check_cert.
check_cert_after(look, name, key, exp, prompt, tail) ==
    IF look.rv = GNUTLS_E_NO_CERTIFICATE_FOUND THEN
        [rv |-> look.rv, prompts |-> 0, stored |-> TRUE, unlinked |-> look.unlink,
         db |-> cert_tdb_store(look.db, name, exp, key, tail), ret |-> "ok"]
    ELSE IF look.rv = GNUTLS_E_CERTIFICATE_KEY_MISMATCH THEN
        IF prompt.answer = "no" \/ prompt.answer = "NULL" THEN
            [rv |-> look.rv, prompts |-> 1, stored |-> FALSE,
             unlinked |-> look.unlink, db |-> look.db,
             ret |-> IF prompt.null = "segv" THEN "segv" ELSE "bail"]
        ELSE
            [rv |-> look.rv, prompts |-> 1, stored |-> TRUE,
             unlinked |-> look.unlink,
             db |-> cert_tdb_store(look.db, name, exp, key, tail), ret |-> "ok"]
    ELSE [rv |-> look.rv, prompts |-> 0, stored |-> FALSE, unlinked |-> look.unlink,
          db |-> look.db, ret |-> "ok"]

NoCert == [seq |-> 0, env |-> "none", name |-> <<>>, key |-> <<>>, exp |-> 0,
           answer |-> "-", rv |-> "none", prompts |-> 0, ret |-> "none"]

\* The history of a record file after a check: what was stored, nothing after
\* an unlink, else what it was.
RecAfter(r, name, key, exp, out) ==
    LET f == cert_store_cache_filename(name) IN
    IF out.stored
    THEN [r EXCEPT ![f] = [name |-> name, exp |-> exp, key |-> key, via |-> out.rv]]
    ELSE IF out.unlinked THEN [r EXCEPT ![f] = NoRec]
    ELSE r

\* check_cert reaching the trust store: what it does to the cache and its
\* outcome.
CheckCertLookup(name, key, look, exp, prompt, tail) ==
    \E out \in {check_cert_after(look, name, key, exp, prompt, tail)} :
       /\ tdb' = out.db
       /\ rec' = RecAfter(rec, name, key, exp, out)
       /\ cert' = [seq |-> 1 - cert.seq, env |-> "lookup", name |-> name,
                   key |-> key, rv |-> out.rv, prompts |-> out.prompts,
                   exp |-> IF out.stored THEN exp ELSE 0,
                   answer |-> IF out.prompts = 0 THEN "-" ELSE prompt.answer,
                   ret |-> out.ret]

\* check_cert returning before the trust store is consulted.
CheckCertReturn(env) ==
    /\ cert' = [NoCert EXCEPT !.seq = 1 - cert.seq, !.env = env,
                              !.ret = check_cert_early(env)]
    /\ UNCHANGED <<tdb, rec>>

\* A call of check_cert that reaches the trust store.
CheckCert(name, key, look, exp, prompt, tail) ==
    /\ CheckCertLookup(name, key, look, exp, prompt, tail)
    /\ UNCHANGED <<ioVars, connVars>>

\* A call of check_cert that returns before the trust store is consulted.
CheckCertEarly(env) ==
    /\ CheckCertReturn(env)
    /\ UNCHANGED <<ioVars, connVars>>

(***************************************************************************)
(* tcp_tls_connect                                                         *)
(***************************************************************************)
\* How often gnutls_handshake asks to be called again.
MaxRetry == 1

\* The results gnutls_handshake gives to one tcp_tls_connect, call by call:
\* "again" is negative and not fatal, "fatal" negative and fatal, "ok" not
\* negative.
Handshakes ==
    {[i \in 1..(k + 1) |-> IF i <= k THEN "again" ELSE r] :
        k \in 0..MaxRetry, r \in {"ok", "fatal"}}

\* Not the code: a loop that never calls gnutls_handshake again.
handshake_once(err) == FALSE

\* while (err < 0 && gnutls_error_is_fatal(err) == 0)
handshake_again(err) == err = "again"

\* The do-while loop from the i-th call of gnutls_handshake on: err when it is
\* left, and the calls made.
RECURSIVE handshake_loop(_, _)
handshake_loop(hs, i) ==
    IF i < Len(hs) /\ handshake_again(hs[i]) THEN handshake_loop(hs, i + 1)
    ELSE [err |-> hs[i], calls |-> i]

\* if (err < 0)
handshake_failed(err) == err # "ok"

\* The library calls up to the end of the handshake loop.
tcp_tls_connect_ops(ssl, calls) ==
    (IF ssl THEN <<>> ELSE <<"gnutls_global_init", "gnutls_init", "cert_store_init">>)
       \o <<"gnutls_priority_set_direct">>
       \o [i \in 1..calls |-> "gnutls_handshake"]

\* How tcp_tls_connect ends after check_cert: return True, or exit(1); "segv"
\* when the process died inside check_cert.
tcp_tls_connect_ret(ret) ==
    IF ret = "ok" THEN "True" ELSE IF ret = "bail" THEN "exit" ELSE "segv"

\* tcp_tls_connect() when a CHECK of the set-up fails: assert ends the
\* process.
TlsConnectAbort ==
    /\ Alive
    /\ \A t \in Threads : pc[t] = "idle"
    /\ g_ssl_initialized' = TRUE
    /\ tls' = [seq |-> 1 - tls.seq, fn |-> "tcp_tls_connect",
               ops |-> tcp_tls_connect_ops(g_ssl_initialized, 0), hs |-> <<>>,
               ret |-> "abort"]
    /\ UNCHANGED <<with_scard, g_network_error, g_run_ui, g_exit_mainloop, g_in,
                   g_out, cur_stream_id, ext, lock, pc, fr, wire, last, ipv6,
                   g_server_address, g_last_server_name, g_sock, conn>>
    /\ UNCHANGED trustVars

\* tcp_tls_connect() when the handshake loop is left with err < 0: goto fail.
TlsConnectFail(hs) ==
    /\ Alive
    /\ \A t \in Threads : pc[t] = "idle"
    /\ handshake_failed(handshake_loop(hs, 1).err)
    /\ g_ssl_initialized' = FALSE
    /\ tls' = [seq |-> 1 - tls.seq, fn |-> "tcp_tls_connect",
               ops |-> tcp_tls_connect_ops(g_ssl_initialized,
                                           handshake_loop(hs, 1).calls)
                          \o <<"gnutls_deinit", "gnutls_global_deinit">>,
               hs |-> hs, ret |-> "False"]
    /\ UNCHANGED <<with_scard, g_network_error, g_run_ui, g_exit_mainloop, g_in,
                   g_out, cur_stream_id, ext, lock, pc, fr, wire, last, ipv6,
                   g_server_address, g_last_server_name, g_sock, conn>>
    /\ UNCHANGED trustVars

\* tcp_tls_connect() when the handshake loop is left with err >= 0, up to the
\* call of check_cert; the socket is connected.
TlsConnectShake(hs) ==
    /\ Alive
    /\ \A t \in Threads : pc[t] = "idle"
    /\ g_sock # -1
    /\ ~handshake_failed(handshake_loop(hs, 1).err)
    /\ g_ssl_initialized' = TRUE
    /\ tls' = [seq |-> 1 - tls.seq, fn |-> "tcp_tls_connect",
               ops |-> tcp_tls_connect_ops(g_ssl_initialized,
                                           handshake_loop(hs, 1).calls)
                          \o <<"check_cert">>,
               hs |-> hs, ret |-> tcp_tls_connect_ret(cert'.ret)]
    /\ UNCHANGED <<with_scard, g_network_error, g_run_ui, g_exit_mainloop, g_in,
                   g_out, cur_stream_id, ext, lock, pc, fr, wire, last, ipv6,
                   g_server_address, g_last_server_name, g_sock, conn>>

\* tcp_tls_connect() with a handshake that succeeds and a check_cert that
\* reaches the trust store.
TlsConnectLookup(hs, name, key, look, exp, prompt, tail) ==
    /\ CheckCertLookup(name, key, look, exp, prompt, tail)
    /\ TlsConnectShake(hs)

\* tcp_tls_connect() with a handshake that succeeds and a check_cert that
\* returns before the trust store is consulted.
TlsConnectEarly(hs, env) ==
    /\ CheckCertReturn(env)
    /\ TlsConnectShake(hs)

\* The process before its first connect: a single-threaded build, nothing
\* allocated.
IoQuiet ==
    /\ with_scard = FALSE
    /\ g_network_error = FALSE
    /\ g_ssl_initialized = FALSE
    /\ g_run_ui = FALSE
    /\ g_exit_mainloop = FALSE
    /\ g_in = ZeroStream
    /\ g_out = [i \in 0..(STREAM_COUNT_DEFAULT - 1) |-> ZeroStream]
    /\ cur_stream_id = 0
    /\ ext = NoExt
    /\ lock = "free"
    /\ pc = [t \in Threads |-> "idle"]
    /\ fr = [t \in Threads |-> NoFrame]
    /\ wire = <<>>
    /\ last = NoLast

\* The certificate cache no check_cert has touched in this run.
TrustQuiet ==
    /\ tdb = [f \in FileNames |-> NoFile]
    /\ rec = [f \in FileNames |-> NoRec]
    /\ cert = NoCert

InitTrust ==
    /\ tdb \in [FileNames -> {NoFile} \cup CorruptFiles]
    /\ rec = [f \in FileNames |-> NoRec]
    /\ cert = NoCert
    /\ IoQuiet
    /\ ipv6 = TRUE
    /\ ConnQuiet

NextTrust ==
    \/ \E name \in Names, key \in Keys :
          \E look \in {gnutls_verify_stored_pubkey(tdb, name, key)} :
             \E exp \in Expirations, prompt \in Prompts, tail \in Tails :
                CheckCert(name, key, look, exp, prompt, tail)
    \/ \E env \in CertEnvs : CheckCertEarly(env)

SpecTrust == InitTrust /\ [][NextTrust]_vars

\* The client is started again after its process ended, and connects.
Start ==
    /\ ~Alive
    /\ g_ssl_initialized' = FALSE
    /\ g_network_error' = FALSE
    /\ g_exit_mainloop' = FALSE
    /\ g_in' = ConnectStream(ZeroStream)
    /\ g_out' = [i \in 0..(STREAM_COUNT - 1) |-> ConnectStream(ZeroStream)]
    /\ cur_stream_id' = 0
    /\ lock' = "free"
    /\ pc' = [t \in Threads |-> "idle"]
    /\ fr' = [t \in Threads |-> NoFrame]
    /\ wire' = <<>>
    /\ last' = NoLast
    /\ g_server_address' = "a1"
    /\ g_last_server_name' = "farm"
    /\ g_sock' = Fd
    /\ conn' = [NoConn EXCEPT !.seq = 1, !.server = "farm", !.resolved = TRUE,
                              !.ok = TRUE, !.line = 948, !.addr = "a1",
                              !.okhost = "farm"]
    /\ tls' = NoTls
    /\ UNCHANGED <<with_scard, g_run_ui, ext, ipv6>>
    /\ UNCHANGED trustVars

\* The certificates the server of these runs presents: the identity "c" with
\* one key or the other.
Peers == {[name |-> <<99>>, key |-> k, exp |-> 1700000000] : k \in Keys}

NextTls ==
    \/ TlsConnectAbort
    \/ \E hs \in Handshakes : TlsConnectFail(hs)
    \/ \E hs \in Handshakes, peer \in Peers :
          \E look \in {gnutls_verify_stored_pubkey(tdb, peer.name, peer.key)} :
             \E prompt \in Prompts, tail \in Tails :
                TlsConnectLookup(hs, peer.name, peer.key, look, peer.exp, prompt, tail)
    \/ \E hs \in Handshakes, env \in CertEnvs : TlsConnectEarly(hs, env)
    \/ TcpDisconnect
    \/ Start

\* The TLS upgrades of a connected client over the runs of its process; the
\* certificate cache is empty at first.
InitTls ==
    /\ with_scard = FALSE
    /\ g_ssl_initialized = FALSE
    /\ g_run_ui = FALSE
    /\ ext = NoExt
    /\ IoConnected
    /\ TrustQuiet

SpecTls == InitTls /\ [][NextTls]_vars

\* The send and receive engine of a connected, single-threaded client, over
\* the plaintext socket or the TLS record layer, with or without the event
\* loop; the client receives into g_in, or into a stream of its own.
InitIO ==
    /\ with_scard = FALSE
    /\ g_ssl_initialized \in BOOLEAN
    /\ g_run_ui \in BOOLEAN
    /\ ext \in ExtInit \cup {NoExt}
    /\ IoConnected
    /\ TrustQuiet

SpecIO == InitIO /\ [][NextIO]_vars

\* The connects and disconnects of a client, in either build, from the start
\* of the process.
InitConn ==
    /\ ipv6 \in BOOLEAN
    /\ ConnQuiet
    /\ IoQuiet
    /\ TrustQuiet

SpecConn == InitConn /\ [][NextConn]_vars

\* The socket is open and the process runs: a caller may do I/O.
Online == Alive /\ g_sock # -1

\* A client over its life, from the start of the process: it connects, sends
\* and receives while connected, upgrades to TLS, takes the server key, resets,
\* disconnects and connects again; the process may be started again after it
\* died.
NextLife ==
    \/ Online /\ TcpInit("main", MaxLen)
    \/ Produce("main", MaxLen)
    \/ SendCall("main")
    \/ \E sent \in 1..MaxLen : SendBytes("main", sent)
    \/ SendFatal("main")
    \/ SendDone("main")
    \/ \E dest \in {NoRef, InRef, ExtRef} : Online /\ RecvCall("main", dest, MaxLen)
    \/ \E rcvd \in 1..MaxLen : RecvBytes("main", rcvd)
    \/ RecvFatal("main")
    \/ RecvDone("main")
    \/ \E up \in {{}, {"a1"}} : TcpConnect("farm", <<"a1">>, up, "none")
    \/ TcpDisconnect
    \/ TcpResetState
    \/ \E peer \in {p \in Peers : p.key = <<65, 66, 67, 68>>} :
          \E look \in {gnutls_verify_stored_pubkey(tdb, peer.name, peer.key)} :
             TlsConnectLookup(<<"ok">>, peer.name, peer.key, look, peer.exp,
                              [answer |-> "yes", null |-> "-"], <<>>)
    \/ \E key \in PubKeys, crash \in BOOLEAN : TcpTlsGetServerPubkey(key, crash)
    \/ Start

InitLife ==
    /\ with_scard = FALSE
    /\ g_network_error = FALSE
    /\ g_ssl_initialized = FALSE
    /\ g_run_ui = FALSE
    /\ g_exit_mainloop = FALSE
    /\ g_in = ZeroStream
    /\ g_out = [i \in 0..(STREAM_COUNT_DEFAULT - 1) |-> ZeroStream]
    /\ cur_stream_id = 0
    /\ ext \in {NoExt, ZeroStream}
    /\ lock = "free"
    /\ pc = [t \in Threads |-> "idle"]
    /\ fr = [t \in Threads |-> NoFrame]
    /\ wire = <<>>
    /\ last = NoLast
    /\ ipv6 = TRUE
    /\ ConnQuiet
    /\ TrustQuiet

SpecLife == InitLife /\ [][NextLife]_vars

\* The outbound side of a client built with WITH_SCARD: the main thread and the
\* smart-card thread allocate from the pool of eight streams and send, over the
\* plaintext socket or over TLS.
NextScard ==
    \/ \E t \in Threads : TcpInit(t, MaxLen)
    \/ \E t \in Threads : Produce(t, MaxLen)
    \/ \E t \in Threads : SendCall(t)
    \/ \E t \in Threads : SendLock(t)
    \/ \E t \in Threads, sent \in 1..MaxLen : SendBytes(t, sent)
    \/ \E t \in Threads : SendWouldBlock(t)
    \/ \E t \in Threads : SendFatal(t)
    \/ \E t \in Threads : SendDone(t)

InitScard ==
    /\ with_scard = TRUE
    /\ g_ssl_initialized \in BOOLEAN
    /\ g_run_ui = FALSE
    /\ ext = NoExt
    /\ IoConnected
    /\ TrustQuiet

SpecScard == InitScard /\ [][NextScard]_vars

\* No stream of the pool has been grown yet.
PoolInitial == \A i \in DOMAIN g_out : g_out[i].size = INITIAL_SIZE

\* The pool of a client built with WITH_SCARD under its two producers, over
\* the plaintext socket, every send going through: requests fit the initial
\* capacity, but for one that is larger.
NextPool ==
    \/ \E t \in Threads : TcpInit(t, MaxLen)
    \/ \E t \in Threads : PoolInitial /\ TcpInit(t, INITIAL_SIZE + 1)
    \/ \E t \in Threads : Produce(t, MaxLen)
    \/ \E t \in Threads : SendCall(t)
    \/ \E t \in Threads : SendLock(t)
    \/ \E t \in Threads, sent \in 1..MaxLen : SendBytes(t, sent)
    \/ \E t \in Threads : SendDone(t)
    \/ PeerReads

InitPool ==
    /\ with_scard = TRUE
    /\ g_ssl_initialized = FALSE
    /\ g_run_ui = FALSE
    /\ ext = NoExt
    /\ IoConnected
    /\ TrustQuiet

SpecPool == InitPool /\ [][NextPool]_vars

(***************************************************************************)
(* Claims about the trust store                                            *)
(***************************************************************************)
\* This step is a call of check_cert that consults the trust store.
IsLookup == cert'.seq # cert.seq /\ cert'.env = "lookup"

\* The record file of the identity this step checks, before and after.
FileBefore == tdb[cert_store_cache_filename(cert'.name)]
FileAfter == tdb'[cert_store_cache_filename(cert'.name)]
RecBefore == rec[cert_store_cache_filename(cert'.name)]

\* file is a record (expiration, key): a decimal line and the key in base64.
HoldsRecord(file, exp, key) ==
    /\ file # NoFile
    /\ ~fgets(file, 0).null
    /\ fgets(file, 0).buf = Decimal(exp) \o <<NL>>
    /\ ~fgets(file, fgets(file, 0).pos).null
    /\ LET dec == base64_decode_update(DecodeInit, fgets(file, fgets(file, 0).pos).buf)
       IN dec.ok /\ dec.bits = 0 /\ dec.out = key

\* file is there and does not parse: no expiration line, no key line, or a key
\* line that is no base64.
Malformed(file) ==
    /\ file # NoFile
    /\ \/ fgets(file, 0).null
       \/ fgets(file, fgets(file, 0).pos).null
       \/ ~base64_decode_update(DecodeInit, fgets(file, fgets(file, 0).pos).buf).ok

\* C3: once cert_tdb_store has stored (expiration, K) for identity X, a check of
\* X presenting K is Trusted: no prompt, the record file untouched, the
\* connection proceeds.
C3_StoredKeyIsTrusted ==
    [][(IsLookup /\ RecBefore.name = cert'.name /\ RecBefore.key = cert'.key)
        => (/\ cert'.rv = GNUTLS_E_SUCCESS
            /\ cert'.prompts = 0
            /\ tdb' = tdb
            /\ cert'.ret = "ok")]_vars

\* C4: with K stored for X, a check of X presenting another key K2 is a
\* Mismatch with exactly one prompt; on "yes" the record becomes (new
\* expiration, K2) and the check proceeds; and a later check of X with the key
\* an approved overwrite stored is Trusted without a prompt.
C4_MismatchPromptsOnceYesPersists ==
    [][IsLookup =>
        /\ (RecBefore.name = cert'.name /\ RecBefore.key # cert'.key)
            => /\ cert'.rv = GNUTLS_E_CERTIFICATE_KEY_MISMATCH
               /\ cert'.prompts = 1
               /\ cert'.answer = "yes"
                   => /\ HoldsRecord(FileAfter, cert'.exp, cert'.key)
                      /\ cert'.ret = "ok"
        /\ (/\ RecBefore.via = GNUTLS_E_CERTIFICATE_KEY_MISMATCH
            /\ RecBefore.name = cert'.name /\ RecBefore.key = cert'.key)
            => cert'.rv = GNUTLS_E_SUCCESS /\ cert'.prompts = 0]_vars

\* C5: a check in Mismatch whose prompt is answered "no", or not answered,
\* aborts the connection attempt and leaves the trust store as it was.
C5_DeclinedMismatchChangesNothing ==
    [][(/\ IsLookup
        /\ cert'.rv = GNUTLS_E_CERTIFICATE_KEY_MISMATCH
        /\ cert'.answer \in {"no", "NULL"})
        => (cert'.ret # "ok" /\ tdb' = tdb)]_vars

\* C6: a record file that does not parse is treated like a missing one: the
\* lookup is Unknown, there is no prompt, the presented key is stored as the new
\* record (in place of the corrupt file) and the connection proceeds.
C6_MalformedRecordIsUnknown ==
    [][(IsLookup /\ Malformed(FileBefore))
        => (/\ cert'.rv = GNUTLS_E_NO_CERTIFICATE_FOUND
            /\ cert'.prompts = 0
            /\ FileAfter # FileBefore
            /\ rec'[cert_store_cache_filename(cert'.name)].key = cert'.key
            /\ cert'.ret = "ok")]_vars

(***************************************************************************)
(* The send and receive engine                                             *)
(***************************************************************************)
\* The streams and the transport.
Buffers == <<g_in, g_out, ext, wire>>

\* The stream tcp_recv of the main thread reads into, after the step.
RecvStreamAfter == IF fr["main"].s = InRef THEN g_in' ELSE ext'

\* C1: while g_network_error is set, a call of tcp_send returns at line 285
\* and a call of tcp_recv returns NULL at line 346, in the step of the call:
\* neither enters its loop (no transport read or write, no readiness wait), and
\* streams, transport, lock and flags are as before. Being a property of every
\* step from a state with the flag set, it covers every later call.
C1_ErrorFlagShortCircuits ==
    [][g_network_error =>
         /\ \A t \in Threads :
               (pc[t] = "filled" /\ pc'[t] # "filled") =>
                  /\ pc'[t] = "idle"
                  /\ last' = Returned(t, "tcp_send", 285)
                  /\ UNCHANGED <<Buffers, lock, g_network_error, g_exit_mainloop>>
         /\ pc["main"] = "idle" => pc'["main"] # "recv"
         /\ (pc["main"] = "idle" /\ last' # last /\ last'.op = "tcp_recv") =>
               /\ last' = Returned("main", "tcp_recv", 346)
               /\ ReturnsNull(last')
               /\ UNCHANGED <<Buffers, lock, g_network_error, g_exit_mainloop>>]_vars

\* A tcp_recv has returned NULL at its first statement although the transport
\* had bytes to read.
C1_Witness ==
    /\ g_network_error
    /\ last = Returned("main", "tcp_recv", 346)
    /\ wire # <<>>

\* C2: when tcp_send returns with g_network_error unset, the bytes handed to
\* the transport over all turns of its loop are the N = s->end - s->data bytes
\* of the stream, in order, each once, whatever the transport took per turn.
C2_SendAllOrFailed ==
    [][\A t \in Threads :
          (pc[t] = "send" /\ pc'[t] = "idle" /\ ~g_network_error') =>
             /\ last'.op = "tcp_send" /\ last'.line = 336
             /\ fr[t].total = fr[t].want
             /\ fr[t].want = PtrOff(Deref(fr[t].s), Deref(fr[t].s).end)
             /\ fr[t].tx = Slice(Deref(fr[t].s), 0, fr[t].want)]_vars

\* A tcp_send of two bytes has returned normally and its last turn moved one
\* byte only: the transport took N/2 per turn.
C2_Witness ==
    /\ ~g_network_error
    /\ last.op = "tcp_send" /\ last.line = 336
    /\ last.rc = 1
    /\ last.rt = Payload(2)

\* C8: a tcp_send of N bytes onto the empty transport followed by a tcp_recv
\* of length N: when the tcp_recv returns its stream (line 429), the N bytes
\* from where its new data began to s->end are the bytes sent, in order; and
\* any tcp_recv that returns its stream has accumulated exactly the length
\* asked for.
C8_RoundTrip ==
    [][(pc["main"] = "recv" /\ pc'["main"] = "idle" /\ last'.line = 429) =>
         /\ PtrOff(RecvStreamAfter, RecvStreamAfter.end)
               = fr["main"].start + fr["main"].want
         /\ Len(fr["main"].tx) = fr["main"].want
         /\ fr["main"].expect # None =>
               Slice(RecvStreamAfter, fr["main"].start, fr["main"].want)
                  = fr["main"].expect]_vars

\* A tcp_recv of two bytes has returned what the tcp_send before it sent, after
\* a last turn that read one byte only.
C8_Witness ==
    /\ last.op = "tcp_recv" /\ last.line = 429
    /\ last.rc = 1
    /\ last.rt = Payload(2)

\* The step is a call tcp_recv(s, L) with the caller's stream that goes on to
\* read, and s->end - s->data + L exceeds s->size.
GrowsExt ==
    /\ pc["main"] = "idle"
    /\ pc'["main"] = "recv"
    /\ fr'["main"].s = ExtRef
    /\ PtrOff(ext, ext.end) + fr'["main"].want > ext.size

\* C9: tcp_recv(s, L) with s->end - s->data + L > s->size grows s to at least
\* that length, leaves the bytes up to s->end as they were, and leaves
\* s->p - s->data and s->end - s->data as they were.
C9_GrowthPreserves ==
    [][GrowsExt =>
         /\ ext'.size >= PtrOff(ext, ext.end) + fr'["main"].want
         /\ ext'.data
         /\ Slice(ext', 0, PtrOff(ext, ext.end)) = Slice(ext, 0, PtrOff(ext, ext.end))
         /\ ext'.p.base = "data" /\ ext'.end.base = "data"
         /\ PtrOff(ext', ext'.p) = PtrOff(ext, ext.p)
         /\ PtrOff(ext', ext'.end) = PtrOff(ext, ext.end)]_vars

\* The caller's stream of one byte, read to its end, has been grown to three
\* by a tcp_recv of two bytes that has not read yet.
C9_Witness ==
    /\ pc["main"] = "recv"
    /\ fr["main"].s = ExtRef /\ fr["main"].want = 2 /\ fr["main"].rc = -1
    /\ ext.size = 3
    /\ ext.bytes = <<9>>
    /\ ext.p = DataPtr(1) /\ ext.end = DataPtr(1)

\* C10: after a return of tcp_send from inside its loop, and after a return of
\* NULL by tcp_recv other than the one for g_exit_mainloop, g_network_error is
\* set.
C10_FatalFailureSetsFlag ==
    \/ last.op = "tcp_send" /\ last.line \in {302, 327}
    \/ ReturnsNull(last) /\ last.line # 384
    => g_network_error

(***************************************************************************)
(* Connecting                                                              *)
(***************************************************************************)
\* The step is a call of tcp_connect.
IsConnect == conn'.seq # conn.seq

\* C7: tcp_connect(h) resolves exactly if no address is cached or h is not the
\* server of the tcp_connect call before it; and a call with another server
\* than the call before it resolves and leaves an address of its server
\* cached.
C7_ResolvesIfPreviousDiffers ==
    [][IsConnect =>
         /\ conn'.resolved <=>
               (g_server_address = NULLP \/ conn'.server # conn.server)
         /\ (conn.server # NULLP /\ conn'.server # conn.server) =>
               /\ conn'.resolved
               /\ g_server_address' \in Addrs(conn'.server)]_vars

\* C7, as the code has it: tcp_connect(h) resolves exactly if no address is
\* cached, or no tcp_connect has returned True yet, or h is not the server of
\* the last tcp_connect that returned True; and a call that returns True leaves
\* the address it connected to cached, an address of h if the call resolved.
C7_ResolvesIfLastConnectedDiffers ==
    [][IsConnect =>
         /\ conn'.resolved <=>
               (g_server_address = NULLP \/ conn.okhost = NULLP
                \/ conn'.server # conn.okhost)
         /\ conn'.ok =>
               /\ g_server_address' = conn'.addr
               /\ conn'.resolved => conn'.addr \in Addrs(conn'.server)
               /\ ~conn'.resolved => conn'.addr = g_server_address]_vars

\* In the IPv6 build, a tcp_connect to the farm, called after a tcp_connect to
\* another server that failed, has connected without resolving: the farm was
\* the last server connected.
C7_Witness ==
    /\ ipv6
    /\ conn.server = "farm" /\ conn.prev = "10.0.0.1"
    /\ conn.okhost = "farm"
    /\ conn.ok /\ ~conn.resolved

(***************************************************************************)
(* TLS upgrade                                                             *)
(***************************************************************************)
\* The step is a call of tcp_tls_connect.
IsTlsConnect == tls'.seq # tls.seq /\ tls'.fn = "tcp_tls_connect"

\* The check_cert of this step consulted the trust store and came out trusted:
\* the stored key is the key presented, or the identity was unknown and its key
\* was stored, or the operator answered "yes" and the key was stored.
TrustedNow ==
    /\ cert'.seq # cert.seq
    /\ cert'.env = "lookup"
    /\ \/ cert'.rv = GNUTLS_E_SUCCESS
       \/ cert'.rv = GNUTLS_E_NO_CERTIFICATE_FOUND /\ cert'.exp # 0
       \/ /\ cert'.rv = GNUTLS_E_CERTIFICATE_KEY_MISMATCH
          /\ cert'.answer = "yes" /\ cert'.exp # 0

\* C11: tcp_tls_connect returns True only if, in that call and after the
\* handshake succeeded, check_cert consulted the trust store for the peer and
\* came out trusted.
C11_EstablishedOnlyIfTrusted ==
    [][(IsTlsConnect /\ tls'.ret = "True") =>
         /\ tls'.hs # <<>> /\ tls'.hs[Len(tls'.hs)] = "ok"
         /\ TrustedNow]_vars

\* The result of the last gnutls_handshake of the call of this step.
LastHandshake == tls'.hs[Len(tls'.hs)]

\* The calls of fn among the library calls of the call of this step.
CallsOf(fn) == Cardinality({i \in DOMAIN tls'.ops : tls'.ops[i] = fn})

\* C12: when the handshake of tcp_tls_connect succeeds and check_cert does not
\* return 0, tcp_tls_connect deinitializes the session, clears
\* g_ssl_initialized and returns False.
C12_FailedCheckTearsDown ==
    [][(IsTlsConnect /\ cert'.seq # cert.seq /\ cert'.ret # "ok") =>
         /\ tls'.ret = "False"
         /\ CallsOf("gnutls_deinit") = 1
         /\ ~g_ssl_initialized']_vars

\* C15: tcp_tls_connect calls gnutls_handshake again after every result that
\* is negative and not fatal, and not after any other; after a fatal result it
\* deinitializes the session, clears g_ssl_initialized, returns False and
\* leaves the trust store, its history and the prompt alone; check_cert is
\* called only after a result that is not negative.
C15_HandshakeRetried ==
    [][(IsTlsConnect /\ tls'.hs # <<>>) =>
         /\ CallsOf("gnutls_handshake") = Len(tls'.hs)
         /\ LastHandshake = "fatal" =>
               /\ tls'.ret = "False"
               /\ CallsOf("gnutls_deinit") = 1
               /\ ~g_ssl_initialized'
               /\ CallsOf("check_cert") = 0
               /\ UNCHANGED trustVars
         /\ (cert'.seq # cert.seq \/ CallsOf("check_cert") > 0) =>
               LastHandshake = "ok"]_vars

\* A tcp_tls_connect whose handshake asked to be called again and then failed
\* for good has returned False with the session gone.
C15_Witness ==
    /\ tls.fn = "tcp_tls_connect"
    /\ tls.hs = <<"again", "fatal">>
    /\ tls.ret = "False"
    /\ ~g_ssl_initialized

\* ---------------------------------------------------------------------------
\* Claims about failed connects and about tcp_disconnect
\* ---------------------------------------------------------------------------

\* A tcp_connect that returned False because the name did not resolve
\* (getaddrinfo failed, line 809; gethostbyname and inet_addr failed, line 894).
ResolveFailed == IsConnect /\ conn'.line \in {809, 894}

\* C20: a tcp_connect that fails because the hostname cannot be resolved
\* leaves the cached server address, the last connected hostname, the socket
\* and the streams as they were.
C20_ResolveFailureMutatesNothing ==
    [][ResolveFailed =>
         UNCHANGED <<g_server_address, g_last_server_name, g_sock, g_in, g_out>>]_vars

\* ---------------------------------------------------------------------------
\* Claims about leaving the main loop
\* ---------------------------------------------------------------------------

\* In this state tcp_recv is inside its loop with bytes still to read.
Receiving == pc["main"] = "recv" /\ tcp_recv_more(fr["main"].length)

\* This step is tcp_recv returning NULL after ui_select (line 384).
IsRecvExit == Receiving /\ pc'["main"] = "idle" /\ last'.line = 384

\* C16: a tcp_recv that finds g_exit_mainloop set after ui_select returns NULL
\* at once: the step reads nothing from the transport, leaves the end of the
\* streams where it was and does not set g_network_error; and while tcp_recv
\* runs under the event loop on the plaintext socket with g_exit_mainloop set,
\* that return is its only step.
C16_ExitMainloopAborts ==
    [][/\ IsRecvExit =>
            /\ g_run_ui /\ g_exit_mainloop'
            /\ ReturnsNull(last')
            /\ wire' = wire
            /\ g_in' = g_in /\ ext' = ext
            /\ g_network_error' = g_network_error
       /\ (Receiving /\ g_run_ui /\ ~g_ssl_initialized /\ g_exit_mainloop) =>
            IsRecvExit]_vars

\* tcp_recv has returned at line 384 with one byte of two already in g_in.
C16_Witness ==
    /\ last.op = "tcp_recv" /\ last.line = 384
    /\ g_exit_mainloop
    /\ ~g_network_error
    /\ PtrOff(g_in, g_in.end) = 1
    /\ wire # <<>>

\* ---------------------------------------------------------------------------
\* Claims about the life of a trust record
\* ---------------------------------------------------------------------------

\* Identity x has a well-formed record: its record file holds the expiration
\* and the key cert_tdb_store last stored for x.
WellFormed(x) ==
    LET f == cert_store_cache_filename(x) IN
    rec[f].name = x /\ HoldsRecord(tdb[f], rec[f].exp, rec[f].key)

\* C14: the record file of an identity X with a well-formed record changes or
\* disappears only in a check of X whose lookup is a mismatch and whose prompt
\* is answered "yes"; a record file comes into being only in a check of the
\* identity it belongs to whose lookup found no record.
C14_RecordReadOnly ==
    [][/\ \A x \in Names :
             (/\ WellFormed(x)
              /\ tdb'[cert_store_cache_filename(x)] # tdb[cert_store_cache_filename(x)])
             => /\ IsLookup
                /\ cert'.name = x
                /\ cert'.rv = GNUTLS_E_CERTIFICATE_KEY_MISMATCH
                /\ cert'.answer = "yes"
       /\ \A f \in FileNames :
             (tdb[f] = NoFile /\ tdb'[f] # NoFile)
             => /\ IsLookup
                /\ cert_store_cache_filename(cert'.name) = f
                /\ cert'.rv = GNUTLS_E_NO_CERTIFICATE_FOUND]_vars

\* ---------------------------------------------------------------------------
\* Claims about the life of a connection
\* ---------------------------------------------------------------------------

\* C13: a tcp_connect that succeeds leaves g_network_error clear, so that the
\* tcp_send and tcp_recv after it go to the transport instead of returning at
\* once.
C13_ConnectClearsErrorFlag ==
    [][(IsConnect /\ conn'.ok) => ~g_network_error']_vars

\* This step is a call of tcp_disconnect.
IsDisconnect == tls'.seq # tls.seq /\ tls'.fn = "tcp_disconnect"

\* Library call a is made before library call b in ops.
Before(ops, a, b) ==
    \E i, j \in DOMAIN ops : ops[i] = a /\ ops[j] = b /\ i < j

\* The calls into GnuTLS that tcp_disconnect can make.
TlsOps == {"gnutls_bye", "gnutls_deinit", "gnutls_global_deinit"}

\* s has no storage and holds no bytes: nothing lies between its cursors.
Released(s) == s.size = 0 /\ ~s.data /\ s.end = s.p

\* C18: tcp_disconnect, in whatever state it is called, leaves no TLS session,
\* the socket closed and g_in and every g_out[i] released and empty; with a
\* session it calls gnutls_bye before gnutls_deinit and before close, without
\* one it makes no call into GnuTLS.
C18_DisconnectReleasesAll ==
    [][IsDisconnect =>
         /\ ~g_ssl_initialized'
         /\ g_sock' = -1
         /\ Released(g_in')
         /\ \A i \in DOMAIN g_out' : Released(g_out'[i])
         /\ g_ssl_initialized =>
               /\ Before(tls'.ops, "gnutls_bye", "gnutls_deinit")
               /\ Before(tls'.ops, "gnutls_deinit", "close")
         /\ ~g_ssl_initialized =>
               \A i \in DOMAIN tls'.ops : tls'.ops[i] \notin TlsOps]_vars

\* start <= position <= end <= start + capacity, the cursors of s pointing
\* into the storage s has now (all NULL when it has none).
StreamInvariant(s) ==
    IF s.data
    THEN /\ s.p.base = "data" /\ s.end.base = "data"
         /\ 0 <= s.p.off /\ s.p.off <= s.end.off /\ s.end.off <= s.size
    ELSE s.p = NullPtr /\ s.end = NullPtr /\ s.size = 0

\* C19: in every reachable state g_in, every g_out[i] and the caller's stream
\* satisfy start <= position <= end <= start + capacity.
C19_StreamInvariant ==
    /\ StreamInvariant(g_in)
    /\ \A i \in DOMAIN g_out : StreamInvariant(g_out[i])
    /\ ext # NoExt => StreamInvariant(ext)

\* ---------------------------------------------------------------------------
\* Claims about the lock of the outbound side
\* ---------------------------------------------------------------------------

\* Thread t is inside the loop of tcp_send.
InSend(t) == pc[t] = "send"

\* This step is a tcp_init: the pool moves on to its next stream.
IsTcpInit == cur_stream_id' # cur_stream_id

\* This step hands bytes of thread t to the transport.
Sends(t) == fr'[t].total > fr[t].total

\* C17: with WITH_SCARD one lock serializes the outbound side: at most one
\* thread is inside the loop of tcp_send, and it holds the lock; tcp_init runs
\* only while no thread is inside that loop; only the thread inside the loop
\* hands bytes to the transport, so the bytes of two sends never interleave;
\* and the lock is free whenever no thread is inside the loop, whichever way
\* tcp_send returned.
C17_LockSerializesOutbound ==
    [][/\ \A t, u \in Threads : (InSend(t) /\ InSend(u)) => t = u
       /\ \A t \in Threads : InSend(t) => lock = t
       /\ (\A t \in Threads : ~InSend(t)) => lock = "free"
       /\ IsTcpInit => (lock = "free" /\ \A t \in Threads : ~InSend(t))
       /\ \A t \in Threads :
             Sends(t) => (lock = t /\ \A u \in Threads \ {t} : ~InSend(u) /\ ~Sends(u))
       /\ \A t \in Threads :
             (InSend(t) /\ ~InSend(t)') =>
                (lock' = "free" /\ last'.op = "tcp_send" /\ last'.line \in {302, 327, 336})]_vars

\* The main thread is halfway through its send, holding the lock, while the
\* smart-card thread waits for it in tcp_send.
C17_Witness ==
    /\ with_scard
    /\ pc["main"] = "send" /\ fr["main"].total = 1 /\ lock = "main"
    /\ pc["scard"] = "send_lock"

\* ---------------------------------------------------------------------------
\* Claims about the cached address and about tcp_is_connected
\* ---------------------------------------------------------------------------

\* C21: a tcp_connect(h) that does not resolve connects to a cached address
\* that is an address of h; and after every tcp_connect the cached address is
\* an address of the last connected hostname.
C21_CachedAddressOfLastHostname ==
    [][IsConnect =>
         /\ ~conn'.resolved => g_server_address \in Addrs(conn'.server)
         /\ (g_server_address' # NULLP /\ g_last_server_name' # NULLP) =>
               g_server_address' \in Addrs(g_last_server_name')]_vars

\* This step is a call of tcp_is_connected.
IsIsConnected == tls'.seq # tls.seq /\ tls'.fn = "tcp_is_connected"

\* C24: tcp_is_connected returns True exactly when the socket has a connected
\* peer, that is when getpeername succeeds: False after tcp_disconnect and
\* whenever getpeername fails.
C24_IsConnectedIffPeer ==
    [][IsIsConnected =>
         /\ tls'.ret = "True" <=> tls'.ops = <<"getpeername: 0">>
         /\ g_sock = -1 => tls'.ret = "False"]_vars

\* ---------------------------------------------------------------------------
\* Claims about the pool of outbound streams
\* ---------------------------------------------------------------------------

\* This step is thread t returning from tcp_init.
IsAcquire(t) == pc[t] = "idle" /\ pc'[t] = "acquired"

\* What every tcp_init does: it returns slot cur_stream_id, reset to empty and
\* of at least the capacity asked for, moves cur_stream_id to the next slot
\* and leaves the other slots alone.
RoundRobin(t) ==
    /\ fr'[t].s = OutRef(cur_stream_id)
    /\ cur_stream_id' = (cur_stream_id + 1) % STREAM_COUNT
    /\ g_out'[cur_stream_id].p = DataPtr(0)
    /\ g_out'[cur_stream_id].end = DataPtr(0)
    /\ g_out'[cur_stream_id].size >= fr'[t].want
    /\ \A i \in DOMAIN g_out : i # cur_stream_id => g_out'[i] = g_out[i]

\* C22: tcp_init hands out the STREAM_COUNT slots round robin, each reset and
\* large enough; and with no more than STREAM_COUNT streams in flight it never
\* returns a slot that another producer still has in flight.
C22_NoSlotInFlightReturned ==
    [][\A t \in Threads : IsAcquire(t) =>
          /\ RoundRobin(t)
          /\ Cardinality({u \in Threads : InFlight(u)}) + 1 <= STREAM_COUNT =>
                \A u \in Threads \ {t} : InFlight(u) => fr[u].s # fr'[t].s]_vars

\* C22, as the code has it: tcp_init hands out the slots round robin, each
\* reset and large enough; the slot another producer has in flight is returned
\* (and reset) exactly by the STREAM_COUNT-th call of tcp_init after the one
\* that returned it, and by none before, however few streams are in flight.
C22_SlotReturnedAfterOneRound ==
    [][\A t \in Threads : IsAcquire(t) =>
          /\ RoundRobin(t)
          /\ \A u \in Threads \ {t} : InFlight(u) =>
                /\ fr[u].age < STREAM_COUNT - 1 => fr[u].s # fr'[t].s
                /\ fr[u].age = STREAM_COUNT - 1 => fr[u].s = fr'[t].s]_vars

\* The smart-card thread still holds the stream it filled while the main
\* thread, STREAM_COUNT calls of tcp_init later, has been given the same slot,
\* reset; one slot has been grown for a large request.
C22_Witness ==
    /\ pc["scard"] = "filled" /\ pc["main"] = "acquired"
    /\ fr["scard"].s = fr["main"].s
    /\ fr["scard"].age = STREAM_COUNT
    /\ g_out[fr["scard"].s.i].end = DataPtr(0)
    /\ \E i \in DOMAIN g_out : g_out[i].size > INITIAL_SIZE

\* ---------------------------------------------------------------------------
\* Claims about the termination of tcp_send and tcp_recv
\* ---------------------------------------------------------------------------

\* The byte the peer writes.
PeerByte == 9

\* The send and receive engine of a connected, single-threaded client on a
\* transport that never fails for good and whose peer stays: no turn of
\* tcp_send or tcp_recv gets a fatal result or a close.
NextLive ==
    \/ TcpInit("main", MaxLen)
    \/ Produce("main", MaxLen)
    \/ SendCall("main")
    \/ \E sent \in 1..MaxLen : SendBytes("main", sent)
    \/ SendWouldBlock("main")
    \/ PeerReads
    \/ SendDone("main")
    \/ \E dest \in {NoRef, InRef}, length \in 0..MaxLen : RecvCall("main", dest, length)
    \/ RecvExit("main")
    \/ \E rcvd \in 1..MaxLen : RecvBytes("main", rcvd)
    \/ RecvWouldBlock("main")
    \/ PeerWrites(PeerByte)
    \/ RecvDone("main")

InitLive ==
    /\ with_scard = FALSE
    /\ g_ssl_initialized \in BOOLEAN
    /\ g_run_ui \in BOOLEAN
    /\ ext = NoExt
    /\ IoConnected
    /\ TrustQuiet

\* The transport does not block for ever: the peer reads what fills it and
\* writes when it is empty, and a turn of the loop that can transfer bytes is
\* taken in the end. The code itself goes on: a loop whose condition fails is
\* left, and tcp_recv returns when it finds g_exit_mainloop set.
FairLive ==
    /\ WF_vars(\E sent \in 1..MaxLen : SendBytes("main", sent))
    /\ WF_vars(PeerReads)
    /\ WF_vars(SendDone("main"))
    /\ WF_vars(\E rcvd \in 1..MaxLen : RecvBytes("main", rcvd))
    /\ WF_vars(PeerWrites(PeerByte))
    /\ WF_vars(RecvDone("main"))
    /\ WF_vars(g_exit_mainloop /\ RecvExit("main"))

SpecLive == InitLive /\ [][NextLive]_vars /\ FairLive

\* This step is a turn of the loop of tcp_send in which the transport took
\* nothing (would block).
IsSendBlocked == pc["main"] = "send" /\ fr'["main"].rc = 0 /\ wire' = wire

\* A turn that would block adds nothing to total, leaves g_network_error
\* unset and stays in the loop.
BlockedAbsorbed ==
    /\ fr'["main"].total = fr["main"].total
    /\ g_network_error' = FALSE
    /\ pc'["main"] = "send"

\* This step is tcp_send returning.
IsSendReturn == pc["main"] = "send" /\ pc'["main"] = "idle"

\* tcp_send returns at its end with all the bytes of the stream transmitted,
\* in order, and g_network_error unset.
SentAll ==
    /\ last'.op = "tcp_send" /\ last'.line = 336
    /\ fr["main"].total = fr["main"].want
    /\ fr["main"].tx = Slice(Deref(fr["main"].s), 0, fr["main"].want)
    /\ g_network_error' = FALSE

\* This step is tcp_recv returning.
IsRecvReturn == pc["main"] = "recv" /\ pc'["main"] = "idle"

\* tcp_recv returns the stream, the bytes asked for appended to it.
Filled ==
    /\ last'.op = "tcp_recv" /\ last'.line = 429
    /\ Len(fr["main"].tx) = fr["main"].want
    /\ PtrOff(g_in', g_in'.end) = fr["main"].start + fr["main"].want
    /\ SubSeq(g_in'.bytes, fr["main"].start + 1, fr["main"].start + fr["main"].want)
          = fr["main"].tx
    /\ g_network_error' = FALSE

\* tcp_recv returns NULL because g_exit_mainloop was set after ui_select.
Cancelled ==
    /\ last'.op = "tcp_recv" /\ last'.line = 384
    /\ g_run_ui
    /\ g_exit_mainloop'

\* C23: a turn of tcp_send that would block adds zero to total, does not set
\* g_network_error and does not make tcp_send return; on a transport that
\* does not block for ever and does not fail, tcp_send returns in the end,
\* with all the bytes transmitted and g_network_error unset, and tcp_recv
\* returns in the end, with the filled stream.
C23_SendAndRecvTerminate ==
    /\ [][/\ IsSendBlocked => BlockedAbsorbed
          /\ IsSendReturn => SentAll
          /\ IsRecvReturn => Filled]_vars
    /\ (pc["main"] = "send") ~> (pc["main"] = "idle")
    /\ (pc["main"] = "recv") ~> (pc["main"] = "idle")

\* C23, as the code has it: the same, but tcp_recv returns in the end either
\* with the filled stream or, when the event loop runs and g_exit_mainloop is
\* set after ui_select, with NULL.
C23_SendTerminatesRecvUnlessCancelled ==
    /\ [][/\ IsSendBlocked => BlockedAbsorbed
          /\ IsSendReturn => SentAll
          /\ IsRecvReturn => (Filled \/ Cancelled)]_vars
    /\ (pc["main"] = "send") ~> (pc["main"] = "idle")
    /\ (pc["main"] = "recv") ~> (pc["main"] = "idle")

\* tcp_send is in its loop, part of the stream sent, the transport full and
\* the last turn blocked; a tcp_recv before it has stored bytes in g_in.
C23_Witness ==
    /\ pc["main"] = "send"
    /\ fr["main"].rc = 0
    /\ 0 < fr["main"].total /\ fr["main"].total < fr["main"].length
    /\ Len(wire) = WireCap
    /\ g_network_error = FALSE
    /\ PtrOff(g_in, g_in.end) > 0

====
